---- MODULE Spec2Model ----
(***************************************************************************)
(* A model of streamlit_app.py: the clause segmentation of                 *)
(* parse_pdf_by_clauses / split_into_clauses, the clause matching and the  *)
(* per-pair compliance judgment of analyze_clause_matches, and the analyze *)
(* button handler that stores a run's results in the session state.        *)
(*                                                                         *)
(* Encodings.  A Python dict (insertion ordered) is a sequence of records  *)
(* with pairwise distinct keys.  A clause body is the list of words that   *)
(* jieba.cut yields for it.  A similarity ratio r is never computed as a   *)
(* float: it is kept as the pair (2*M, T) of difflib's 2.0*M/T and         *)
(* compared by cross-multiplication.  Python's None is NoneStr for a       *)
(* string-valued slot and [some |-> FALSE, ...] for a dict-valued slot.    *)
(***************************************************************************)
EXTENDS Integers, Sequences, FiniteSets, TLC

VARIABLES
    target_clauses,         \* st.session_state.target_clauses
    compare_files,          \* st.session_state.compare_files
    current_file,           \* st.session_state.current_file
    api_key,                \* st.session_state.api_key
    pc,                     \* position of the analyze handler
    run_file,               \* filename the handler was started for
    all_matched,            \* all_matched_clause_nums, as (t_num, c_num) pairs
    match_method,           \* "label", "similarity" or "none"
    total_matched,          \* total_matched
    idx,                    \* number of loop iterations of the judgment loop done
    compliant_results,      \* compliant_results
    non_compliant_results,  \* non_compliant_results
    calls,                  \* the calls made to call_qwen_api for a pair, in order
    requests,               \* number of HTTP requests posted to the API
    errors,                 \* number of st.error messages shown
    faults,                 \* number of answers other than a compliant verdict
    ret,                    \* what analyze_clause_matches returned
    full_text,              \* the text extracted from a PDF file, as characters
    seg_pc,                 \* position of parse_pdf_by_clauses
    clauses_list,           \* clauses_list, the fragments of split_into_clauses
    parsed,                 \* precision and clauses of the parse that returned
    target_file,            \* the file in the uploader of the target file
    uploads,                \* the files in the uploader of the comparison files, by name
    parse_precision,        \* st.session_state.parse_precision
    filter_tables           \* the check box filter_tables

vars == <<target_clauses, compare_files, current_file, api_key, pc, run_file,
          all_matched, match_method, total_matched, idx, compliant_results,
          non_compliant_results, calls, requests, errors, faults, ret,
          full_text, seg_pc, clauses_list, parsed,
          target_file, uploads, parse_precision, filter_tables>>

(***************************************************************************)
(* Bounds of the model and constants of the program.                       *)
(***************************************************************************)
MaxClauses == 2      \* clauses per small document
MaxFaults == 0       \* answers other than "compliant" in a run over a large document
max_analyze == 50    \* max_analyze
ThresholdNum == 3    \* best_ratio = 0.3, as the fraction ThresholdNum / ThresholdDen
ThresholdDen == 10

NoneStr == "<None>"
NoneDict == [some |-> FALSE, items |-> <<>>]
SomeDict(d) == [some |-> TRUE, items |-> d]

Range(s) == {s[k] : k \in DOMAIN s}
Min(a, b) == IF a <= b THEN a ELSE b
Take(s, n) == SubSeq(s, 1, Min(n, Len(s)))

(***************************************************************************)
(* chinese_text_similarity: difflib.SequenceMatcher(None, words1,          *)
(* words2).ratio() over the word lists.  find_longest_match returns the    *)
(* longest common block, the earliest in a and then the earliest in b      *)
(* among the longest; get_matching_blocks recurses to the left and to the  *)
(* right of it; ratio is 2.0 * matches / (len(a) + len(b)).                *)
(***************************************************************************)
RECURSIVE RunLen(_, _, _, _, _, _)
RunLen(a, b, i, j, ahi, bhi) ==
    IF i < ahi /\ j < bhi /\ a[i] = b[j]
    THEN 1 + RunLen(a, b, i + 1, j + 1, ahi, bhi)
    ELSE 0

\* the blocks <<i, j, size>> starting at each pair of positions
Blocks(a, b, alo, ahi, blo, bhi) ==
    {<<i, j, RunLen(a, b, i, j, ahi, bhi)>> : i \in alo..(ahi - 1), j \in blo..(bhi - 1)}

\* the longest of the blocks, the earliest in a and then in b among the longest
LongestOf(blocks, alo, blo) ==
    IF blocks = {} THEN <<alo, blo, 0>>
    ELSE CHOOSE p \in blocks :
             \A q \in blocks :
                 \/ p[3] > q[3]
                 \/ /\ p[3] = q[3]
                    /\ \/ p[1] < q[1]
                       \/ p[1] = q[1] /\ p[2] <= q[2]

FindLongestMatch(a, b, alo, ahi, blo, bhi) ==
    LongestOf(Blocks(a, b, alo, ahi, blo, bhi), alo, blo)

RECURSIVE MatchingSize(_, _, _, _, _, _)
RECURSIVE MatchingSizeAround(_, _, _, _, _, _, _)
\* get_matching_blocks: the block m and the blocks to its left and to its right
MatchingSizeAround(a, b, alo, ahi, blo, bhi, m) ==
    IF m[3] = 0 THEN 0
    ELSE m[3] + MatchingSize(a, b, alo, m[1], blo, m[2])
              + MatchingSize(a, b, m[1] + m[3], ahi, m[2] + m[3], bhi)

MatchingSize(a, b, alo, ahi, blo, bhi) ==
    MatchingSizeAround(a, b, alo, ahi, blo, bhi,
                       FindLongestMatch(a, b, alo, ahi, blo, bhi))

\* the ratio as <<numerator, denominator>>; difflib returns 1.0 for two empty lists
chinese_text_similarity(text1, text2) ==
    IF Len(text1) + Len(text2) = 0 THEN <<1, 1>>
    ELSE <<2 * MatchingSize(text1, text2, 1, Len(text1) + 1, 1, Len(text2) + 1),
           Len(text1) + Len(text2)>>

\* r > s for two ratios
RatioGt(r, s) == r[1] * s[2] > s[1] * r[2]

(***************************************************************************)
(* analyze_clause_matches, the matching part.                              *)
(***************************************************************************)
Keys(d) == {d[k].num : k \in DOMAIN d}
Lookup(d, num) == (CHOOSE k \in DOMAIN d : d[k].num = num)
Content(d, num) == d[Lookup(d, num)].content

RECURSIVE LabelMatches(_, _)
\* [num for num in target_clauses if num in compare_clauses]; an item num is
\* kept as the pair <<num, num>> that the judgment loop unpacks it to
LabelMatches(target, compare) ==
    IF target = <<>> THEN <<>>
    ELSE LET num == Head(target).num
         IN  (IF num \in Keys(compare) THEN <<(<<num, num>>)>> ELSE <<>>)
             \o LabelMatches(Tail(target), compare)

RECURSIVE BestCandidateUnused(_, _, _, _, _)
\* the inner loop over compare_list from index j on: <<best_j, best_ratio>>,
\* best_j = 0 when no candidate was taken
\* Better with ratio >= best_ratio: the last of the best candidates wins
BetterOrEqual(used_indices, j, ratio, best) ==
    IF j \notin used_indices /\ ~RatioGt(best[2], ratio) THEN <<j, ratio>> ELSE best

\* lines 371-376: candidate j with its ratio against the best so far
Better(used_indices, j, ratio, best) ==
    IF j \notin used_indices /\ RatioGt(ratio, best[2]) THEN <<j, ratio>> ELSE best

BestCandidateUnused(t_content, compare_list, used_indices, j, best) ==
    IF j > Len(compare_list) THEN best
    ELSE BestCandidateUnused(t_content, compare_list, used_indices, j + 1,
             Better(used_indices, j,
                    chinese_text_similarity(t_content, compare_list[j].content),
                    best))

\* BestCandidate without the test "j not in used_indices"
BestCandidateIgnoringUsed(t_content, compare_list, used_indices) ==
    BestCandidateUnused(t_content, compare_list, {}, 1,
                        <<0, <<ThresholdNum, ThresholdDen>> >>)

\* BestCandidate with best_ratio starting at 0 instead of the threshold
BestCandidateNoFloor(t_content, compare_list, used_indices) ==
    BestCandidateUnused(t_content, compare_list, used_indices, 1, <<0, <<0, 1>> >>)

BestCandidate(t_content, compare_list, used_indices) ==
    BestCandidateUnused(t_content, compare_list, used_indices, 1,
                        <<0, <<ThresholdNum, ThresholdDen>> >>)

RECURSIVE SimilarityLoop(_, _, _, _, _)
\* the outer loop over target_list from index i on: matched_pairs as
\* <<t_num, c_num, best_ratio>> triples
RECURSIVE SimilarityTake(_, _, _, _, _, _)
\* lines 378-380: target clause i takes its best candidate, if it has one
SimilarityTake(target_list, compare_list, i, matched_pairs, used_indices, best) ==
    IF best[1] # 0
    THEN SimilarityLoop(target_list, compare_list, i + 1,
             Append(matched_pairs,
                    <<target_list[i].num, compare_list[best[1]].num, best[2]>>),
             used_indices \cup {best[1]})
    ELSE SimilarityLoop(target_list, compare_list, i + 1, matched_pairs, used_indices)

SimilarityLoop(target_list, compare_list, i, matched_pairs, used_indices) ==
    IF i > Len(target_list) THEN matched_pairs
    ELSE SimilarityTake(target_list, compare_list, i, matched_pairs, used_indices,
             BestCandidate(target_list[i].content, compare_list, used_indices))

SimilarityMatches(target, compare) ==
    SimilarityLoop(target, compare, 1, <<>>, {})

\* all_matched_clause_nums and the method that produced it
\* lines 382-388: the pairs of the similarity matching
FromSimilarity(matched_pairs) ==
    IF matched_pairs # <<>>
    THEN [pairs |-> [k \in DOMAIN matched_pairs |->
                        <<matched_pairs[k][1], matched_pairs[k][2]>>],
          method |-> "similarity"]
    ELSE [pairs |-> <<>>, method |-> "none"]

\* lines 353-356: the similarity matching is tried when no label is shared
FromLabels(by_label, target, compare) ==
    IF by_label # <<>>
    THEN [pairs |-> by_label, method |-> "label"]
    ELSE FromSimilarity(SimilarityMatches(target, compare))

MatchClauses(target, compare) ==
    FromLabels(LabelMatches(target, compare), target, compare)

(***************************************************************************)
(* The documents and the answers of the API the model draws from.          *)
(***************************************************************************)
\* a body of ten words: the first p are shared by all bodies, the rest are
\* its own, so two bodies Body(p, q), Body(p', q') with q # q' have the
\* ratio 2 * min(p, p') / 20
Body(p, q) == [k \in 1..10 |-> IF k <= p THEN k ELSE 100 * q + k]

Labels == {"1", "2", "3", "4"}
TargetBodies == {Body(9, 1), Body(4, 2)}
CompareBodies == {Body(9, 3), Body(3, 5)}

\* the comparison documents: the ordered dicts of at most MaxClauses clauses,
\* keys pairwise distinct and in any order
CompareDicts ==
    UNION {{d \in [1..n -> [num : Labels, content : CompareBodies]] :
               \A i, j \in 1..n : i # j => d[i].num # d[j].num} :
           n \in 0..MaxClauses}

\* the target documents: at most MaxClauses clauses, numbered by their position
TargetDicts ==
    UNION {{d \in [1..n -> [num : Labels, content : TargetBodies]] :
               \A i \in 1..n : d[i].num = ToString(i)} :
           n \in 0..MaxClauses}

\* a document of more clauses than max_analyze, numbered by their position
BigDoc(body) == [k \in 1..(max_analyze + 1) |-> [num |-> ToString(k), content |-> body]]

FileName == "a.pdf"

\* the text of an answer, as characters: he gui = the compliant keyword,
\* bu he gui = the non-compliant keyword, sp = white space
CompliantText == <<"sp", "he", "gui", "x">>
NonCompliantText == <<"bu", "he", "gui", "x">>
OtherText == <<"x", "he", "gui">>
EmptyText == <<>>
ResponseTexts == {CompliantText, NonCompliantText, OtherText, EmptyText}

\* what one HTTP request can end in (call_qwen_api, lines 325-343)
ApiOutcomes ==
    {[kind |-> k, text |-> <<>>] : k \in {"timeout", "status", "malformed", "exception"}}
    \cup {[kind |-> "ok", text |-> t] : t \in ResponseTexts}

NoneResult == [ok |-> FALSE, text |-> <<>>]

\* call_qwen_api without its except clauses: a request that fails raises
call_qwen_api_raising(key, o) ==
    IF key = "" THEN [result |-> NoneResult, posted |-> 0, error |-> 1, raised |-> FALSE]
    ELSE IF o.kind = "ok" THEN [result |-> [ok |-> TRUE, text |-> o.text],
                                posted |-> 1, error |-> 0, raised |-> FALSE]
    ELSE [result |-> NoneResult, posted |-> 1, error |-> 1,
          raised |-> o.kind \in {"timeout", "exception"}]

\* call_qwen_api: the returned value, whether a request was posted and
\* whether st.error was called; o is what the request ends in if one is made
\* whether the call raised: every exception is caught (lines 338-343)
call_qwen_api(key, o) ==
    IF key = "" THEN [result |-> NoneResult, posted |-> 0, error |-> 1, raised |-> FALSE]
    ELSE IF o.kind = "ok" THEN [result |-> [ok |-> TRUE, text |-> o.text],
                                posted |-> 1, error |-> 0, raised |-> FALSE]
    ELSE [result |-> NoneResult, posted |-> 1, error |-> 1, raised |-> FALSE]

\* Python's truth value of the returned value: None and "" are false
Truthy(result) == result.ok /\ result.text # <<>>

RECURSIVE LStrip(_)
LStrip(s) == IF s # <<>> /\ Head(s) = "sp" THEN LStrip(Tail(s)) ELSE s
RECURSIVE RStrip(_)
RStrip(s) == IF s # <<>> /\ s[Len(s)] = "sp" THEN RStrip(SubSeq(s, 1, Len(s) - 1)) ELSE s
Strip(s) == RStrip(LStrip(s))
StartsWith(s, prefix) == Len(s) >= Len(prefix) /\ SubSeq(s, 1, Len(prefix)) = prefix

\* IsCompliantAnswer with "in" for startswith: the keyword anywhere in the answer
IsCompliantAnswerAnywhere(text) ==
    \E k \in 1..Len(text) : StartsWith(SubSeq(text, k, Len(text)), <<"he", "gui">>)

\* result.strip().startswith("合规")
IsCompliantAnswer(text) == StartsWith(Strip(text), <<"he", "gui">>)

\* DictPut that puts a new key first
DictPutFirst(d, val) ==
    <<val>> \o SelectSeq(d, LAMBDA e : e.target_num # val.target_num)

\* d[key] = val on an insertion-ordered dict of records with a field target_num
DictPut(d, val) ==
    IF \E k \in DOMAIN d : d[k].target_num = val.target_num
    THEN [k \in DOMAIN d |-> IF d[k].target_num = val.target_num THEN val ELSE d[k]]
    ELSE Append(d, val)

(***************************************************************************)
(* analyze_clause_matches, the judgment part, and the analyze button       *)
(* handler.  The handler is one synchronous run; it is cut at the blocking *)
(* calls of the API, one step per matched pair.                            *)
(***************************************************************************)
NoReturn == [called |-> FALSE, matched_results |-> NoneDict, summary |-> NoneStr,
             total_compliant |-> 0, total_matched |-> 0]
Return(mr, su, tc, tm) == [called |-> TRUE, matched_results |-> mr, summary |-> su,
                           total_compliant |-> tc, total_matched |-> tm]

NoMatchSummary == "no matched clauses, no compliance analysis"
FallbackSummary == "no summary, check the API configuration"
SummaryText == "summary"

\* the entry a newly uploaded comparison file gets (lines 577-583)
NewFileEntry(clauses) ==
    [clauses |-> clauses, matched_results |-> NoneDict, summary |-> NoneStr,
     total_compliant |-> 0, total_matched |-> 0]

\* lines 607-612: the handler stores what a run returned
StoreResult(files, f, r) ==
    [files EXCEPT ![f] = [@ EXCEPT !.matched_results = r.matched_results,
                                   !.summary = r.summary,
                                   !.total_compliant = r.total_compliant,
                                   !.total_matched = r.total_matched]]

\* Classify with a failed call recorded among the non-compliant pairs
ClassifyFailureRecorded(result) ==
    IF Truthy(result) /\ IsCompliantAnswer(result.text) THEN "compliant" ELSE "non_compliant"

\* lines 426-445: which collection the answer for a pair goes to
Classify(result) ==
    IF Truthy(result)
    THEN IF IsCompliantAnswer(result.text) THEN "compliant" ELSE "non_compliant"
    ELSE "skip"

\* ResultEntry with the two clause numbers exchanged
ResultEntrySwapped(t_num, c_num, target, compare, result, compliant) ==
    [target_num |-> c_num, compare_num |-> t_num,
     target |-> Content(target, t_num), compare |-> Content(compare, c_num),
     analysis |-> result.text, compliant |-> compliant]

\* lines 429-445: the entry of a judged pair
ResultEntry(t_num, c_num, target, compare, result, compliant) ==
    [target_num |-> t_num, compare_num |-> c_num,
     target |-> Content(target, t_num), compare |-> Content(compare, c_num),
     analysis |-> result.text, compliant |-> compliant]

\* FinalCompliant without the slice
FinalCompliantUncut(compliant) == compliant

\* line 452: dict(list(compliant_results.items())[:max_analyze])
FinalCompliant(compliant) == Take(compliant, max_analyze)

RunUnchanged == UNCHANGED <<all_matched, match_method, total_matched, idx,
                            compliant_results, non_compliant_results, calls,
                            requests, errors, faults>>
SessionUnchanged == UNCHANGED <<target_clauses, compare_files, current_file, api_key>>
\* no widget is changed and no file is parsed
ParseUnchanged == UNCHANGED <<full_text, seg_pc, clauses_list, parsed,
                              target_file, uploads, parse_precision, filter_tables>>

\* lines 382-388: no pair was found
NoPairs(m) ==
    /\ m.pairs = <<>>
    /\ match_method' = m.method
    /\ all_matched' = m.pairs
    /\ total_matched' = 0

\* lines 353-354 and 382-385: the pairs that were found
SomePairs(m) ==
    /\ m.pairs # <<>>
    /\ match_method' = m.method
    /\ all_matched' = m.pairs
    /\ total_matched' = Len(m.pairs)

\* line 599: the button is pressed and target_clauses is empty: the handler body is skipped
ClickNoTarget ==
    /\ pc = "idle"
    /\ FileName \in DOMAIN compare_files
    /\ target_clauses = <<>>
    /\ pc' = "done"
    /\ run_file' = FileName
    /\ ret' = NoReturn
    /\ RunUnchanged /\ SessionUnchanged /\ ParseUnchanged

\* ClickNoCompare with a handler that stores what the run returned without
\* the test "matched_results is not None"
ClickNoCompareStored ==
    /\ pc = "idle"
    /\ FileName \in DOMAIN compare_files
    /\ target_clauses # <<>>
    /\ compare_files[FileName].clauses = <<>>
    /\ pc' = "done"
    /\ run_file' = FileName
    /\ ret' = Return(NoneDict, NoneStr, 0, 0)
    /\ compare_files' = StoreResult(compare_files, FileName,
                                    Return(NoneDict, NoneStr, 0, 0))
    /\ current_file' = FileName
    /\ UNCHANGED <<target_clauses, api_key>>
    /\ RunUnchanged /\ ParseUnchanged

\* lines 348-350: no comparison clauses: (None, None, 0, 0), nothing is stored
ClickNoCompare ==
    /\ pc = "idle"
    /\ FileName \in DOMAIN compare_files
    /\ target_clauses # <<>>
    /\ compare_files[FileName].clauses = <<>>
    /\ pc' = "done"
    /\ run_file' = FileName
    /\ ret' = Return(NoneDict, NoneStr, 0, 0)
    /\ RunUnchanged /\ SessionUnchanged /\ ParseUnchanged

\* lines 352-388 and 607-612: no pair by label nor by similarity: an empty
\* result is returned and stored
ClickNoMatch ==
    /\ pc = "idle"
    /\ FileName \in DOMAIN compare_files
    /\ target_clauses # <<>>
    /\ compare_files[FileName].clauses # <<>>
    /\ NoPairs(MatchClauses(target_clauses, compare_files[FileName].clauses))
    /\ ret' = Return(SomeDict(<<>>), NoMatchSummary, 0, 0)
    /\ compare_files' = StoreResult(compare_files, FileName,
                                    Return(SomeDict(<<>>), NoMatchSummary, 0, 0))
    /\ current_file' = FileName
    /\ run_file' = FileName
    /\ pc' = "done"
    /\ UNCHANGED <<target_clauses, api_key, idx, compliant_results,
                   non_compliant_results, calls, requests, errors, faults>>
    /\ ParseUnchanged

\* lines 352-395: the pairs are found and the judgment loop is entered
ClickMatch ==
    /\ pc = "idle"
    /\ FileName \in DOMAIN compare_files
    /\ target_clauses # <<>>
    /\ compare_files[FileName].clauses # <<>>
    /\ SomePairs(MatchClauses(target_clauses, compare_files[FileName].clauses))
    /\ run_file' = FileName
    /\ pc' = "judging"
    /\ UNCHANGED <<idx, compliant_results, non_compliant_results, calls,
                   requests, errors, faults, ret>>
    /\ SessionUnchanged /\ ParseUnchanged

\* the answers the model lets a request end in: in a run over more pairs
\* than a small document has clauses, at most MaxFaults are not compliant verdicts
AllowedOutcomes ==
    IF Len(all_matched) > MaxClauses + 1 /\ faults >= MaxFaults
    THEN {[kind |-> "ok", text |-> CompliantText]}
    ELSE ApiOutcomes

\* lines 396-448, one iteration of the loop, the request ending in o
JudgeWith(o) ==
    LET item == all_matched[idx + 1]
        t_num == item[1]
        c_num == item[2]
        compare == compare_files[run_file].clauses
        call == call_qwen_api(api_key, o)
        class == Classify(call.result)
    IN  /\ calls' = Append(calls, [t_num |-> t_num, c_num |-> c_num,
                                   result |-> call.result])
        /\ requests' = requests + call.posted
        /\ errors' = errors + call.error
        /\ faults' = IF class = "compliant" THEN faults ELSE faults + 1
        /\ compliant_results' =
              IF class = "compliant"
              THEN DictPut(compliant_results,
                           ResultEntry(t_num, c_num, target_clauses, compare,
                                       call.result, TRUE))
              ELSE compliant_results
        /\ non_compliant_results' =
              IF class = "non_compliant"
              THEN DictPut(non_compliant_results,
                           ResultEntry(t_num, c_num, target_clauses, compare,
                                       call.result, FALSE))
              ELSE non_compliant_results
        /\ idx' = idx + 1
        /\ pc' = IF call.raised THEN "raised" ELSE "judging"
        /\ UNCHANGED <<all_matched, match_method, total_matched, run_file, ret>>
        /\ SessionUnchanged /\ ParseUnchanged

JudgePair ==
    /\ pc = "judging"
    /\ idx < Len(all_matched)
    /\ \E o \in AllowedOutcomes : JudgeWith(o)

\* lines 450-479 and 607-612: the loop is over; the first max_analyze
\* compliant entries are kept, the summary is asked for, the run returns and
\* the handler stores what it returned
Summarise ==
    /\ pc = "judging"
    /\ idx = Len(all_matched)
    /\ \E o \in {[kind |-> "timeout", text |-> <<>>], [kind |-> "ok", text |-> OtherText]} :
          LET call == call_qwen_api(api_key, o)
              summary == IF Truthy(call.result) THEN SummaryText ELSE FallbackSummary
              r == Return(SomeDict(FinalCompliant(compliant_results)), summary,
                          Len(compliant_results), total_matched)
          IN  /\ requests' = requests + call.posted
              /\ errors' = errors + call.error
              /\ ret' = r
              /\ compare_files' = StoreResult(compare_files, run_file, r)
    /\ current_file' = run_file
    /\ pc' = "done"
    /\ UNCHANGED <<target_clauses, api_key, run_file, all_matched, match_method,
                   total_matched, idx, compliant_results, non_compliant_results,
                   calls, faults>>
    /\ ParseUnchanged

\* no run of the analyze handler has started
NoRun ==
    /\ current_file = NoneStr
    /\ pc = "idle"
    /\ run_file = NoneStr
    /\ all_matched = <<>>
    /\ match_method = "none"
    /\ total_matched = 0
    /\ idx = 0
    /\ compliant_results = <<>>
    /\ non_compliant_results = <<>>
    /\ calls = <<>>
    /\ requests = 0
    /\ errors = 0
    /\ faults = 0
    /\ ret = NoReturn

\* lines 94, 105-117, 541, 559: the widgets before anything is set or uploaded
NoFile == [some |-> FALSE, pages |-> <<>>]
SomeFile(pages) == [some |-> TRUE, pages |-> pages]
NoFiles == [f \in {} |-> <<>>]

NoUploads ==
    /\ target_file = NoFile
    /\ uploads = NoFiles
    /\ parse_precision = "medium"
    /\ filter_tables = TRUE

\* no file is being parsed
NoParse ==
    /\ full_text = <<>>
    /\ seg_pc = "off"
    /\ clauses_list = <<>>
    /\ parsed = [precision |-> NoneStr, clauses |-> <<>>]

Init ==
    /\ \E key \in {"", "sk"}, small \in BOOLEAN :
          /\ api_key = key
          /\ IF small
             THEN /\ target_clauses \in TargetDicts
                  /\ \E c \in CompareDicts :
                        compare_files = [f \in {FileName} |-> NewFileEntry(c)]
             ELSE /\ target_clauses = BigDoc(<<1, 2>>)
                  /\ compare_files = [f \in {FileName} |-> NewFileEntry(BigDoc(<<1, 3>>))]
    /\ NoRun
    /\ NoParse
    /\ NoUploads

Next ==
    \/ ClickNoTarget
    \/ ClickNoCompare
    \/ ClickNoMatch
    \/ ClickMatch
    \/ JudgePair
    \/ Summarise

Spec == Init /\ [][Next]_vars

(***************************************************************************)
(* The claims about the matching.                                          *)
(***************************************************************************)
MatchedTargets == {all_matched[k][1] : k \in DOMAIN all_matched}
MatchedCompares == {all_matched[k][2] : k \in DOMAIN all_matched}
CompareClauses == compare_files[FileName].clauses

\* C1: in a run of analyze_clause_matches no target clause is paired with
\* more than one comparison clause and no comparison clause with more than
\* one target clause, and every pair is made of a clause of each document,
\* whether the pairs come from label equality or from the similarity matching.
\* The pairs are looked at when the matching has made them, as the judgment
\* loop is entered; the loop does not change them.
C1_OneToOneMatching ==
    (pc = "judging" /\ idx = 0) =>
        /\ \A i, j \in DOMAIN all_matched :
              i # j => /\ all_matched[i][1] # all_matched[j][1]
                       /\ all_matched[i][2] # all_matched[j][2]
        /\ MatchedTargets \subseteq Keys(target_clauses)
        /\ MatchedCompares \subseteq Keys(CompareClauses)
        /\ match_method \in {"label", "similarity"}
        /\ match_method = "label" => \A k \in DOMAIN all_matched :
                                        all_matched[k][1] = all_matched[k][2]

\* C1, its case: the similarity matching paired two target clauses although
\* both score highest with the same comparison clause
C1_Witness ==
    /\ pc = "judging"
    /\ match_method = "similarity"
    /\ Len(all_matched) >= 2
    /\ \E c \in DOMAIN CompareClauses :
          \A t \in DOMAIN target_clauses :
             BestCandidateUnused(target_clauses[t].content, CompareClauses, {}, 1,
                                 <<0, <<ThresholdNum, ThresholdDen>> >>)[1] = c

\* C2: after the matching, every target clause that was not paired by its
\* label has been scored against every comparison clause that is not
\* consumed and is paired when one reaches the threshold: no unpaired target
\* clause is left beside an unconsumed comparison clause whose similarity
\* exceeds the threshold.
C2_TwoPhaseMatching ==
    pc = "judging" =>
        \A t \in DOMAIN target_clauses :
            \A c \in DOMAIN CompareClauses :
                (/\ target_clauses[t].num \notin MatchedTargets
                 /\ CompareClauses[c].num \notin MatchedCompares)
                => ~RatioGt(chinese_text_similarity(target_clauses[t].content,
                                                    CompareClauses[c].content),
                            <<ThresholdNum, ThresholdDen>>)

(***************************************************************************)
(* The claims about the judgment loop and the stored results.              *)
(***************************************************************************)
Failed(call) == ~call.result.ok
\* the run went through the judgment loop and returned
RunReturned == pc = "done" /\ ret.called /\ all_matched # <<>>
Returned == ret.matched_results.items
HasEntry(d, t_num) == \E k \in DOMAIN d : d[k].target_num = t_num
\* the calls that were answered with a compliant verdict, in the order made
CompliantCalls == SelectSeq(calls, LAMBDA call : Classify(call.result) = "compliant")

\* C3: a failed call for a pair does not abort the run: the calls are made
\* one per pair in the order of the pairs, after any call (failed or not)
\* the run can go on, and a run that has ended has called for every pair and
\* has returned a result to the handler.
C3_RunContinuesAfterFailure ==
    /\ pc \in {"idle", "judging", "done"}
    /\ Len(calls) = idx
    /\ idx <= Len(all_matched)
    /\ \A k \in DOMAIN calls : /\ calls[k].t_num = all_matched[k][1]
                               /\ calls[k].c_num = all_matched[k][2]
    /\ pc = "judging" => ENABLED (JudgePair \/ Summarise)
    /\ (pc = "done" /\ all_matched # <<>>) =>
          /\ Len(calls) = Len(all_matched)
          /\ ret.called
          /\ ret.matched_results.some
          /\ ret.total_matched = Len(all_matched)

\* C3, its case: a run has ended in which the call for a pair failed and a
\* later pair was still called for and judged compliant
C3_Witness ==
    /\ RunReturned
    /\ \E i, j \in DOMAIN calls :
          /\ i < j
          /\ Failed(calls[i])
          /\ api_key # ""
          /\ HasEntry(Returned, calls[j].t_num)

\* C4 as claimed: a pair whose call failed is recorded in the results of the run.
C4_FailedPairRecorded ==
    \A k \in DOMAIN calls :
        Failed(calls[k]) =>
            \/ HasEntry(compliant_results, calls[k].t_num)
            \/ HasEntry(non_compliant_results, calls[k].t_num)

\* C4 as amended: a pair whose call failed is recorded in no result
\* collection (an error message is shown for it instead), so a run with n
\* matched pairs returns one entry for each of the first max_analyze pairs
\* that were answered with a compliant verdict, and never more than n.
C4_FailedPairSkipped ==
    /\ \A k \in DOMAIN calls :
          Failed(calls[k]) =>
              /\ ~HasEntry(compliant_results, calls[k].t_num)
              /\ ~HasEntry(non_compliant_results, calls[k].t_num)
              /\ ~HasEntry(compare_files[FileName].matched_results.items, calls[k].t_num)
    /\ errors >= Cardinality({k \in DOMAIN calls : Failed(calls[k])})
    /\ RunReturned =>
          /\ Len(Returned) = Min(Len(CompliantCalls), max_analyze)
          /\ Len(Returned) <= Len(all_matched)

\* C4, its case: a run has ended that returned an entry for one pair and
\* none for a pair whose call failed
C4_Witness ==
    /\ RunReturned
    /\ api_key # ""
    /\ Returned # <<>>
    /\ \E k \in DOMAIN calls : Failed(calls[k]) /\ ~HasEntry(Returned, calls[k].t_num)

\* the requests posted for pairs: none without a key, else one per call
PairRequests == IF api_key = "" THEN 0 ELSE Len(calls)

C6_NoJudgedPairLost ==
    RunReturned =>
        \A k \in DOMAIN calls :
            Classify(calls[k].result) \in {"compliant", "non_compliant"}
            => HasEntry(Returned, calls[k].t_num)

\* position of the target clause with this label
TargetPos(t_num) == Lookup(target_clauses, t_num)

\* C6 as amended: the results a run returns and the handler stores are the
\* pairs answered with a compliant verdict, the first max_analyze of them,
\* each with both labels, both bodies and the answer, in the order the pairs
\* were judged (the order of the target clauses when the pairs come from
\* label equality or similarity matching), with the counts of compliant and
\* of matched pairs; a pair answered non-compliant is not returned.
C6_CompliantPairsKept ==
    RunReturned =>
        /\ LET cc == CompliantCalls
               pos == [k \in DOMAIN Returned |-> TargetPos(Returned[k].target_num)]
           IN  /\ Len(Returned) = Min(Len(cc), max_analyze)
               /\ \A k \in DOMAIN Returned :
                     /\ Returned[k].target_num = cc[k].t_num
                     /\ Returned[k].compare_num = cc[k].c_num
                     /\ Returned[k].analysis = cc[k].result.text
                     /\ Returned[k].target = target_clauses[pos[k]].content
                     /\ Returned[k].compare = Content(CompareClauses, Returned[k].compare_num)
                     /\ Returned[k].compliant
               /\ \A k \in DOMAIN Returned : k > 1 => pos[k - 1] < pos[k]
               /\ ret.total_compliant = Len(cc)
        /\ ret.total_matched = Len(all_matched)
        /\ compare_files[FileName].matched_results = ret.matched_results
        /\ compare_files[FileName].total_compliant = ret.total_compliant
        /\ compare_files[FileName].total_matched = ret.total_matched
        /\ \A k \in DOMAIN calls :
              Classify(calls[k].result) = "non_compliant"
              => ~HasEntry(Returned, calls[k].t_num)

\* C6, its case: a run has ended that returned a compliant pair and judged
\* another pair non-compliant
C6_Witness ==
    /\ RunReturned
    /\ Returned # <<>>
    /\ \E k \in DOMAIN calls : Classify(calls[k].result) = "non_compliant"

\* an answer that begins with neither keyword
NoKeyword(text) ==
    /\ text # <<>>
    /\ ~StartsWith(Strip(text), <<"he", "gui">>)
    /\ ~StartsWith(Strip(text), <<"bu", "he", "gui">>)

C8_MissingKeyStopsRun ==
    (api_key = "" /\ pc = "done" /\ all_matched # <<>>) =>
        /\ idx = 0
        /\ calls = <<>>
        /\ ~compare_files[FileName].matched_results.some
        /\ current_file = NoneStr

(***************************************************************************)
(* split_into_clauses and parse_pdf_by_clauses.  A text is a sequence of   *)
(* characters, each written as a name: di = 第, tiao = 条, n1 .. n10 = 一  *)
(* .. 十, bai = 百, dun = 、, "0" .. "9" the digits, dot = ".", lp, rp =    *)
(* "(", ")", lb, rb = 【, 】, sp = a space, nl, cr = new line, carriage return, ctl = a control character,   *)
(* period, semi, excl, ques = 。；！？, and any other name another          *)
(* character.  Positions count from 1; a position 0 means "no match".      *)
(***************************************************************************)
CnNum == {"n1", "n2", "n3", "n4", "n5", "n6", "n7", "n8", "n9", "n10"}
CnNumBai == CnNum \cup {"bai"}
Digit == {"0", "1", "2", "3", "4", "5", "6", "7", "8", "9"}
Digit19 == Digit \ {"0"}
Space == {"sp", "nl", "cr"}
Terminator == {"period", "semi", "excl", "ques"}

RECURSIVE RunEnd(_, _, _)
\* the position after the longest run of characters of the class from pos on
RunEnd(text, pos, class) ==
    IF pos <= Len(text) /\ text[pos] \in class THEN RunEnd(text, pos + 1, class) ELSE pos

RECURSIVE RunEndNot(_, _, _)
\* the same for the characters other than c
RunEndNot(text, pos, c) ==
    IF pos <= Len(text) /\ text[pos] # c THEN RunEndNot(text, pos + 1, c) ELSE pos

At(text, pos, c) == pos >= 1 /\ pos <= Len(text) /\ text[pos] = c

\* open, one or more characters of the class, close: the position after it, or 0
Bracketed(text, pos, open, class, close) ==
    IF At(text, pos, open) /\ RunEnd(text, pos + 1, class) > pos + 1
                           /\ At(text, RunEnd(text, pos + 1, class), close)
    THEN RunEnd(text, pos + 1, class) + 1 ELSE 0

\* one or more characters of the class, close: the position after it, or 0
Suffixed(text, pos, class, close) ==
    IF RunEnd(text, pos, class) > pos /\ At(text, RunEnd(text, pos, class), close)
    THEN RunEnd(text, pos, class) + 1 ELSE 0

\* the numbering of family k matched at pos: the position after it, or 0.
\* The families, in the order of the patterns: 第..条, ..、, digits., (..),
\* (digits), 【..】
MarkerEnd(k, text, pos) ==
    CASE k = 1 -> Bracketed(text, pos, "di", CnNumBai, "tiao")
      [] k = 2 -> Suffixed(text, pos, CnNum, "dun")
      [] k = 3 -> Suffixed(text, pos, Digit, "dot")
      [] k = 4 -> Bracketed(text, pos, "lp", CnNum, "rp")
      [] k = 5 -> Bracketed(text, pos, "lp", Digit19, "rp")
      [] k = 6 -> IF At(text, pos, "lb") /\ RunEndNot(text, pos + 1, "rb") > pos + 1
                                         /\ At(text, RunEndNot(text, pos + 1, "rb"), "rb")
                  THEN RunEndNot(text, pos + 1, "rb") + 1 ELSE 0

\* group 1 of the numbering of family k matched at pos
MarkerGroup(k, text, pos) ==
    IF k \in {2, 3} THEN SubSeq(text, pos, MarkerEnd(k, text, pos) - 2)
    ELSE SubSeq(text, pos + 1, MarkerEnd(k, text, pos) - 2)

\* the numbering followed by \s+: the position after the white space, or 0
MarkerSpaceEnd(k, text, pos) ==
    IF MarkerEnd(k, text, pos) # 0
       /\ RunEnd(text, MarkerEnd(k, text, pos), Space) > MarkerEnd(k, text, pos)
    THEN RunEnd(text, MarkerEnd(k, text, pos), Space) ELSE 0

SetMin(S) == CHOOSE x \in S : \A y \in S : x <= y

\* str.strip()
StripSpace(t) ==
    LET keep == {p \in DOMAIN t : t[p] \notin Space}
    IN  IF keep = {} THEN <<>>
        ELSE SubSeq(t, SetMin(keep), CHOOSE x \in keep : \A y \in keep : y <= x)

RECURSIVE FindAllFrom(_, _, _, _)
\* re.findall of pattern k from position pos on, marks being the positions
\* where the numbering followed by white space matches: a match starts at
\* the first mark, and its lazy .*? ends at the first mark after the white
\* space or at the end of the text
FindAllFrom(k, text, marks, pos) ==
    IF {m \in marks : m >= pos} = {} THEN <<>>
    ELSE LET start == SetMin({m \in marks : m >= pos})
             stops == {m \in marks : m >= MarkerSpaceEnd(k, text, start)}
                      \cup {Len(text) + 1}
         IN  <<SubSeq(text, start, SetMin(stops) - 1)>>
             \o FindAllFrom(k, text, marks, SetMin(stops))

FindAll(k, text) ==
    FindAllFrom(k, text, {m \in 1..Len(text) : MarkerSpaceEnd(k, text, m) # 0}, 1)

RECURSIVE SplitSentences(_, _)
\* re.split(r'[。；！？]\s*', text) from position pos on
SplitSentences(text, pos) ==
    LET terms == {q \in pos..Len(text) : text[q] \in Terminator}
    IN  IF terms = {} THEN <<SubSeq(text, pos, Len(text))>>
        ELSE <<SubSeq(text, pos, SetMin(terms) - 1)>>
             \o SplitSentences(text, RunEnd(text, SetMin(terms) + 1, Space))

\* [x.strip() for x in items if x.strip()]
StripNonEmpty(items) ==
    LET kept == SelectSeq(items, LAMBDA x : StripSpace(x) # <<>>)
    IN  [i \in DOMAIN kept |-> StripSpace(kept[i])]

\* lines 225-227: the paragraphs of more than 10 characters
Paragraphs(text) ==
    LET kept == SelectSeq(SplitSentences(text, 1),
                          LAMBDA x : StripSpace(x) # <<>> /\ Len(x) > 10)
    IN  [i \in DOMAIN kept |-> StripSpace(kept[i])]

RECURSIVE SplitByPattern(_, _)
\* lines 219-227: the first pattern from k on that finds more than 3 clauses
SplitByPattern(text, k) ==
    IF k > 6 THEN Paragraphs(text)
    ELSE IF Len(FindAll(k, text)) > 3 THEN StripNonEmpty(FindAll(k, text))
    ELSE SplitByPattern(text, k + 1)

split_into_clauses(text) == SplitByPattern(text, 1)

\* every white space character written as a space
AsSpaces(t) == [i \in DOMAIN t |-> IF t[i] \in Space THEN "sp" ELSE t[i]]

RECURSIVE CollapseSpace(_)
\* re.sub(r'\s+', ' ', text): every run of white space becomes one space
CollapseSpace(t) ==
    LET doubles == {p \in 2..Len(t) : t[p] \in Space /\ t[p - 1] \in Space}
    IN  IF doubles = {} THEN AsSpaces(t)
        ELSE AsSpaces(SubSeq(t, 1, SetMin(doubles) - 1))
             \o CollapseSpace(SubSeq(t, RunEnd(t, SetMin(doubles), Space), Len(t)))

\* lines 248-249: control characters removed, white space unified, stripped
Normalise(text) ==
    StripSpace(CollapseSpace(SelectSeq(text, LAMBDA c : c # "ctl")))

\* re.search of the numbering of family k: the leftmost position, or 0
SearchMarker(k, clause) ==
    LET found == {m \in 1..Len(clause) : MarkerEnd(k, clause, m) # 0}
    IN  IF found = {} THEN 0 ELSE SetMin(found)

RECURSIVE FirstFamily(_, _)
\* lines 262-273: the first family from k on that is found in the clause, or 0
FirstFamily(clause, k) ==
    IF k > 6 THEN 0
    ELSE IF SearchMarker(k, clause) # 0 THEN k
    ELSE FirstFamily(clause, k + 1)

RECURSIVE Digits(_)
\* str(i)
Digits(i) == IF i < 10 THEN <<ToString(i)>> ELSE Digits(i \div 10) \o <<ToString(i % 10)>>

\* ClauseNum that keeps the index of the fragment as its number
ClauseNumOrdinal(clause, i) == Digits(i)

\* lines 258-276: clause_num of the i-th fragment
ClauseNum(clause, i) ==
    IF FirstFamily(clause, 1) = 0 THEN Digits(i)
    ELSE MarkerGroup(FirstFamily(clause, 1), clause,
                     SearchMarker(FirstFamily(clause, 1), clause))

\* re.sub('^' + numbering of family k + '\s*', '', content)
StripLeading(k, content) ==
    IF MarkerEnd(k, content, 1) # 0
    THEN SubSeq(content, RunEnd(content, MarkerEnd(k, content, 1), Space), Len(content))
    ELSE content

\* lines 275-285: clause_content
ClauseContent(clause) ==
    IF FirstFamily(clause, 1) = 0 THEN clause
    ELSE StripLeading(6, StripLeading(5, StripLeading(4,
             StripLeading(3, StripLeading(2, StripLeading(1, clause))))))

\* lines 288-293: the least length a clause must exceed
MinLength(precision) ==
    CASE precision = "strict" -> 50
      [] precision = "medium" -> 30
      [] precision = "loose" -> 20

Precisions == {"loose", "medium", "strict"}

\* clauses[clause_num] = content on the insertion-ordered dict
ClausePut(clauses, num, content) ==
    IF \E k \in DOMAIN clauses : clauses[k].num = num
    THEN [k \in DOMAIN clauses |->
             IF clauses[k].num = num THEN [num |-> num, content |-> content]
             ELSE clauses[k]]
    ELSE Append(clauses, [num |-> num, content |-> content])

\* lines 288-293: the filter on the length of clause_content
MeetsLength(content, precision) == Len(content) > MinLength(precision)

RECURSIVE LabelLoop(_, _, _, _)
\* lines 255-293: the loop over the fragments from the i-th on
LabelLoop(fragments, precision, i, clauses) ==
    IF i > Len(fragments) THEN clauses
    ELSE LabelLoop(fragments, precision, i + 1,
             IF MeetsLength(ClauseContent(fragments[i]), precision)
             THEN ClausePut(clauses, ClauseNum(fragments[i], i),
                            StripSpace(ClauseContent(fragments[i])))
             ELSE clauses)

LabelClauses(fragments, precision) == LabelLoop(fragments, precision, 1, <<>>)

(***************************************************************************)
(* The texts that are parsed.  A text is up to MaxPieces sentences, each    *)
(* with or without a numbering, its body written in a character of its own *)
(* so that a clause tells which sentence it came from; T9 is the text       *)
(* 第一条 甲方应于15日内付款。第二条 乙方应交付货物。                        *)
(***************************************************************************)
MaxPieces == 4

PosChars == <<"jia", "yi", "bing", "ding", "wu", "ji", "geng", "xin">>
BodyOf(pos, n) == [k \in 1..n |-> PosChars[pos]]

PieceKinds == 1..5

\* the sentence of a kind at a position: 第一条 and a body of 21 characters,
\* 第二条 and a body of 51, a body of 21 without numbering, "1." and a body
\* of 21, and a body of 12 after white space and a control character
Piece(kind, pos) ==
    CASE kind = 1 -> <<"di", "n1", "tiao", "sp">> \o BodyOf(pos, 21) \o <<"period">>
      [] kind = 2 -> <<"di", "n2", "tiao", "sp">> \o BodyOf(pos, 51) \o <<"period">>
      [] kind = 3 -> BodyOf(pos, 21) \o <<"period">>
      [] kind = 4 -> <<"1", "dot", "sp">> \o BodyOf(pos, 21) \o <<"period">>
      [] kind = 5 -> <<"sp", "ctl", "sp">> \o BodyOf(pos, 12) \o <<"period">>

RECURSIVE TextOf(_, _)
TextOf(kinds, pos) ==
    IF pos > Len(kinds) THEN <<>>
    ELSE Piece(kinds[pos], pos) \o TextOf(kinds, pos + 1)

T9 ==
    <<"di", "n1", "tiao", "sp", "jia", "fang", "ying", "yu", "1", "5", "ri",
      "nei", "fu", "kuan", "period",
      "di", "n2", "tiao", "sp", "yi", "fang", "ying", "jiao", "fu", "huo",
      "wu", "period">>

Texts ==
    {TextOf(kinds, 1) : kinds \in UNION {[1..n -> PieceKinds] : n \in 1..MaxPieces}}
        \cup {T9}

\* line 244: the text extracted from the file
SegInit ==
    /\ api_key = ""
    /\ target_clauses = <<>>
    /\ compare_files = [f \in {FileName} |-> NewFileEntry(<<>>)]
    /\ NoRun
    /\ full_text \in Texts
    /\ seg_pc = "text"
    /\ clauses_list = <<>>
    /\ parsed = [precision |-> NoneStr, clauses |-> <<>>]
    /\ NoUploads

AnalysisUnchanged ==
    UNCHANGED <<target_clauses, compare_files, current_file, api_key, pc,
                run_file, all_matched, match_method, total_matched, idx,
                compliant_results, non_compliant_results, calls, requests,
                errors, faults, ret, target_file, uploads, parse_precision,
                filter_tables>>

\* lines 248-252: the text is normalised and split
SegSplit ==
    /\ seg_pc = "text"
    /\ clauses_list' = split_into_clauses(Normalise(full_text))
    /\ seg_pc' = "split"
    /\ UNCHANGED <<full_text, parsed>>
    /\ AnalysisUnchanged

\* lines 254-296: the fragments are numbered and filtered
SegParse ==
    /\ seg_pc = "split"
    /\ \E precision \in Precisions :
          parsed' = [precision |-> precision,
                     clauses |-> LabelClauses(clauses_list, precision)]
    /\ seg_pc' = "parsed"
    /\ UNCHANGED <<full_text, clauses_list>>
    /\ AnalysisUnchanged

SegNext ==
    \/ SegSplit
    \/ SegParse

SpecSeg == SegInit /\ [][SegNext]_vars

(***************************************************************************)
(* C9 as the specification states it: parsing T9 yields exactly the two    *)
(* clauses 一 and 二 with the bodies 甲方应于15日内付款。 and                *)
(* 乙方应交付货物。.  The code returns no clause for T9.                     *)
(***************************************************************************)
C9_ScenarioYieldsTwoClauses ==
    (full_text = T9 /\ seg_pc = "parsed") =>
        parsed.clauses = <<[num |-> <<"n1">>, content |-> SubSeq(T9, 5, 15)],
                           [num |-> <<"n2">>, content |-> SubSeq(T9, 20, 27)]>>

(***************************************************************************)
(* C9 as the code has it: split_into_clauses cuts T9 at the two 。 into the *)
(* fragments 第一条 甲方应于15日内付款 and 第二条 乙方应交付货物, the        *)
(* labelling numbers them 一 and 二 and leaves the bodies 甲方应于15日内付款 *)
(* and 乙方应交付货物 without the 。, and as both bodies are shorter than    *)
(* the least length of every precision, parse_pdf_by_clauses returns no     *)
(* clause.                                                                 *)
(***************************************************************************)
C9_ScenarioFragmentsFiltered ==
    full_text = T9 =>
        /\ seg_pc \in {"split", "parsed"} =>
              /\ clauses_list = <<SubSeq(T9, 1, 14), SubSeq(T9, 16, 26)>>
              /\ ClauseNum(clauses_list[1], 1) = <<"n1">>
              /\ ClauseNum(clauses_list[2], 2) = <<"n2">>
              /\ ClauseContent(clauses_list[1]) = SubSeq(T9, 5, 14)
              /\ ClauseContent(clauses_list[2]) = SubSeq(T9, 20, 26)
        /\ seg_pc = "parsed" => parsed.clauses = <<>>

C9_Witness ==
    /\ full_text = T9
    /\ seg_pc = "parsed"
    /\ parsed.precision = "loose"
    /\ Len(clauses_list) = 2

(***************************************************************************)
(* C10: every fragment of split_into_clauses whose body passes the length  *)
(* filter of the precision is a clause of the collection that               *)
(* parse_pdf_by_clauses returns, under its number and with its body.  The   *)
(* code stores a clause under its number and a later fragment of the same   *)
(* number replaces it.                                                      *)
(***************************************************************************)
C10_NoFragmentLost ==
    seg_pc = "parsed" =>
        \A i \in DOMAIN clauses_list :
            MeetsLength(ClauseContent(clauses_list[i]), parsed.precision) =>
                \E j \in DOMAIN parsed.clauses :
                    /\ parsed.clauses[j].num = ClauseNum(clauses_list[i], i)
                    /\ parsed.clauses[j].content =
                           StripSpace(ClauseContent(clauses_list[i]))

(***************************************************************************)
(* The claims about the similarity matching.                               *)
(***************************************************************************)
\* the ratio of the target clause at position t and the comparison clause at
\* position c
PairRatio(t, c) ==
    chinese_text_similarity(target_clauses[t].content, CompareClauses[c].content)

RatioEq(r, s) == r[1] * s[2] = s[1] * r[2]

\* the positions of the clauses of the k-th pair in their documents
PairTarget(k) == Lookup(target_clauses, all_matched[k][1])
PairCompare(k) == Lookup(CompareClauses, all_matched[k][2])

\* the comparison clauses consumed by the pairs before the k-th
ConsumedBefore(k) == {PairCompare(m) : m \in 1..(k - 1)}

SimilarityMatched == pc = "judging" /\ idx = 0 /\ match_method = "similarity"

\* C11: in the similarity matching the pairs follow the order of the target
\* clauses; the comparison clause of a pair is not consumed by an earlier
\* pair, no unconsumed comparison clause scores higher with the target
\* clause, and among the unconsumed ones of the same score it is the
\* earliest in the comparison order.
C11_GreedyInOrder ==
    SimilarityMatched =>
        \A k \in DOMAIN all_matched :
            /\ \A m \in 1..(k - 1) : PairTarget(m) < PairTarget(k)
            /\ PairCompare(k) \notin ConsumedBefore(k)
            /\ \A j \in DOMAIN CompareClauses \ ConsumedBefore(k) :
                  /\ ~RatioGt(PairRatio(PairTarget(k), j),
                              PairRatio(PairTarget(k), PairCompare(k)))
                  /\ RatioEq(PairRatio(PairTarget(k), j),
                             PairRatio(PairTarget(k), PairCompare(k)))
                        => j >= PairCompare(k)

\* C11, its case: the first target clause scores the same with two comparison
\* clauses and took the earlier, and the second target clause scores higher
\* with that clause than the first did and got the other one
C11_Witness ==
    /\ SimilarityMatched
    /\ Len(all_matched) = 2
    /\ PairCompare(1) = 1
    /\ PairCompare(2) = 2
    /\ RatioEq(PairRatio(PairTarget(1), 1), PairRatio(PairTarget(1), 2))
    /\ RatioGt(PairRatio(PairTarget(2), 1), PairRatio(PairTarget(1), 1))

\* the similarity matching has run: it made the pairs the judgment loop is
\* entered with, or it made none and the run returned the empty result
SimilarityTried ==
    \/ SimilarityMatched
    \/ /\ pc = "done"
       /\ match_method = "none"
       /\ ret.called
       /\ ret.matched_results.some

Threshold == <<ThresholdNum, ThresholdDen>>

IsMatched(t) == \E k \in DOMAIN all_matched : PairTarget(k) = t

\* the comparison clauses consumed by the target clauses before position t
ConsumedFor(t) ==
    {PairCompare(m) : m \in {n \in DOMAIN all_matched : PairTarget(n) < t}}

Unconsumed(t) == DOMAIN CompareClauses \ ConsumedFor(t)

\* C12 as the specification states it: a target clause is matched if and
\* only if an unconsumed comparison clause scores at least the threshold
\* with it, so a best score equal to the threshold makes a match.  The code
\* does not match at a score equal to the threshold.
C12_MatchedIffAtLeastThreshold ==
    SimilarityTried =>
        \A t \in DOMAIN target_clauses :
            IsMatched(t) <=>
                \E j \in Unconsumed(t) : ~RatioGt(Threshold, PairRatio(t, j))

\* C12 as the code has it: a target clause is matched if and only if an
\* unconsumed comparison clause scores more than the threshold (0.3) with it;
\* a best score equal to the threshold or below it leaves the target clause
\* unmatched, no error is shown for it, and when no target clause is matched
\* the run returns the empty result with the summary that says so.
C12_MatchedIffAboveThreshold ==
    SimilarityTried =>
        /\ \A t \in DOMAIN target_clauses :
              IsMatched(t) <=>
                  \E j \in Unconsumed(t) : RatioGt(PairRatio(t, j), Threshold)
        /\ errors = 0
        /\ all_matched = <<>> => ret = Return(SomeDict(<<>>), NoMatchSummary, 0, 0)

\* C12, its case: a target clause whose best unconsumed candidate scores
\* exactly the threshold is left unmatched while another one is matched
C12_Witness ==
    /\ SimilarityMatched
    /\ \E t \in DOMAIN target_clauses :
          /\ ~IsMatched(t)
          /\ \E j \in Unconsumed(t) : RatioEq(PairRatio(t, j), Threshold)
          /\ \A j \in Unconsumed(t) : ~RatioGt(PairRatio(t, j), Threshold)

(***************************************************************************)
(* The claims about what a run returns and what the handlers store.        *)
(***************************************************************************)
\* analyze_clause_matches returned results (not None)
ReturnedResults == pc = "done" /\ ret.called /\ ret.matched_results.some

\* C13: when a run of analyze_clause_matches returns results, the number of
\* returned entries is min(total_compliant, 50), total_compliant is at most
\* total_matched, total_matched is the number of matched pairs, and every
\* returned entry is compliant and names a clause of the target document and
\* a clause of the comparison document.
C13_ReturnedCounts ==
    ReturnedResults =>
        /\ Len(Returned) = Min(ret.total_compliant, max_analyze)
        /\ Len(Returned) <= ret.total_compliant
        /\ ret.total_compliant <= ret.total_matched
        /\ ret.total_matched = Len(all_matched)
        /\ \A k \in DOMAIN Returned :
              /\ Returned[k].compliant = TRUE
              /\ Returned[k].target_num \in Keys(target_clauses)
              /\ Returned[k].compare_num \in Keys(CompareClauses)

\* C13, its case: a run over two pairs made by similarity returned one
\* compliant entry, whose two clause numbers differ
C13_Witness ==
    /\ ReturnedResults
    /\ ret.total_matched = 2
    /\ ret.total_compliant = 1
    /\ Len(Returned) = 1
    /\ Returned[1].target_num # Returned[1].compare_num

(***************************************************************************)
(* extract_text_from_pdf and is_likely_table.  A file is the sequence of   *)
(* the texts of its pages, as page.extract_text() gives them.  bar is a     *)
(* separator character (one of |┃┆┇║+－=—_); k_xu k_hao = 序号, k_bian      *)
(* k_hao = 编号, k_ming k_cheng = 名称, k_dan k_wei = 单位, k_shu k_liang = *)
(* 数量, k_jin k_e = 金额, k_bei k_zhu = 备注, he k_ji = 合计, k_xiao k_ji  *)
(* = 小计.                                                                  *)
(***************************************************************************)
Separator == {"bar"}

table_keywords ==
    {<<"k_xu", "k_hao">>, <<"k_bian", "k_hao">>, <<"k_ming", "k_cheng">>,
     <<"k_dan", "k_wei">>, <<"k_shu", "k_liang">>, <<"k_jin", "k_e">>,
     <<"k_bei", "k_zhu">>, <<"he", "k_ji">>, <<"k_xiao", "k_ji">>}

CountIn(text, class) == Cardinality({i \in DOMAIN text : text[i] \in class})

\* kw in text, for a keyword of two characters
Contains(text, kw) ==
    \E i \in 1..(Len(text) - 1) : text[i] = kw[1] /\ text[i + 1] = kw[2]

RECURSIVE Words(_, _)
\* text.split() from position pos on: the runs of characters other than white space
Words(text, pos) ==
    LET starts == {i \in pos..Len(text) : text[i] \notin Space}
    IN  IF starts = {} THEN <<>>
        ELSE <<SubSeq(text, SetMin(starts),
                      SetMin({i \in SetMin(starts)..(Len(text) + 1) :
                                 i > Len(text) \/ text[i] \in Space}) - 1)>>
             \o Words(text, SetMin({i \in SetMin(starts)..(Len(text) + 1) :
                                       i > Len(text) \/ text[i] \in Space}))

\* lines 148-150: more than 5 words, more than 70% of them shorter than 5
ShortWordsDense(words) ==
    /\ Len(words) > 5
    /\ 10 * Cardinality({i \in DOMAIN words : Len(words[i]) < 5}) > 7 * Len(words)

\* lines 130-158
is_likely_table(text) ==
    /\ text # <<>>
    /\ \/ 10 * CountIn(text, Digit) > 3 * Len(text)
       \/ CountIn(text, Separator) > 3
       \/ ShortWordsDense(Words(text, 1))
       \/ Cardinality({kw \in table_keywords : Contains(text, kw)}) >= 2

RECURSIVE RemoveDoubleSpaces(_)
\* str.replace("  ", ""): the pairs of spaces, from the left, are removed
RemoveDoubleSpaces(t) ==
    LET pairs == {p \in 1..(Len(t) - 1) : t[p] = "sp" /\ t[p + 1] = "sp"}
    IN  IF pairs = {} THEN t
        ELSE SubSeq(t, 1, SetMin(pairs) - 1)
             \o RemoveDoubleSpaces(SubSeq(t, SetMin(pairs) + 2, Len(t)))

RECURSIVE SplitLines(_)
\* page_text.split('\n')
SplitLines(t) ==
    LET breaks == {p \in DOMAIN t : t[p] = "nl"}
    IN  IF breaks = {} THEN <<t>>
        ELSE <<SubSeq(t, 1, SetMin(breaks) - 1)>>
             \o SplitLines(SubSeq(t, SetMin(breaks) + 1, Len(t)))

RECURSIVE Concat(_)
\* "".join(items)
Concat(items) == IF items = <<>> THEN <<>> ELSE Head(items) \o Concat(Tail(items))

\* line 179: cleaned_para
CleanedPara(para) == RemoveDoubleSpaces(StripSpace(para))

\* lines 174-188: the paragraphs of a page that are kept, cleaned
FilteredParagraphs(page_text) ==
    LET cleaned == [i \in DOMAIN SplitLines(page_text) |->
                        CleanedPara(SplitLines(page_text)[i])]
    IN  SelectSeq(cleaned, LAMBDA c : c # <<>> /\ ~is_likely_table(c))

\* lines 169-195: the text of one page
PageText(page_text, filter_on) ==
    SelectSeq(RemoveDoubleSpaces(IF filter_on
                                 THEN Concat(FilteredParagraphs(page_text))
                                 ELSE page_text),
              LAMBDA c : c \notin {"nl", "cr"})

\* lines 161-201
extract_text_from_pdf(file, filter_on) ==
    Concat([i \in DOMAIN file |-> PageText(file[i], filter_on)])

\* lines 239-296: the clauses parse_pdf_by_clauses returns for a file
parse_pdf_by_clauses(file, precision, filter_on) ==
    LabelClauses(split_into_clauses(Normalise(extract_text_from_pdf(file, filter_on))),
                 precision)

(***************************************************************************)
(* The session over the reruns of the script.  Every change of a widget    *)
(* reruns the script from the top: the target file in the uploader is      *)
(* parsed again (lines 543-549) and the uploaded comparison files whose    *)
(* name is not yet in compare_files are parsed and added (lines 567-584).  *)
(* A press of the analyze button is a rerun with the widgets as they are;  *)
(* it runs the analyze handler, modelled by the actions above.             *)
(***************************************************************************)
Chars(c, n) == [k \in 1..n |-> c]

\* a file without a clause: 甲。
FileEmpty == <<(<<"jia", "period">>)>>

\* 第一条 and 31 × 甲, and a line of separators that is_likely_table takes
\* for a table: a clause for the precisions loose and medium, which is
\* longer when the tables are not filtered
FileA ==
    <<(<<"di", "n1", "tiao", "sp">> \o Chars("jia", 31)
       \o <<"nl">> \o Chars("bar", 4) \o <<"period">>)>>

\* 第三条 and 31 × 丁
FileC == <<(<<"di", "n3", "tiao", "sp">> \o Chars("ding", 31) \o <<"period">>)>>

Files == {FileEmpty, FileA, FileC}
FileNames == {FileName}

TargetChoices == {NoFile} \cup {SomeFile(f) : f \in Files}
UploadChoices == UNION {[names -> Files] : names \in SUBSET FileNames}

\* AddUploads without the test "file.name not in compare_files"
AddUploadsAgain(files, ups, precision, filter_on) ==
    [f \in DOMAIN files \cup DOMAIN ups |->
        IF f \in DOMAIN ups
        THEN NewFileEntry(parse_pdf_by_clauses(ups[f], precision, filter_on))
        ELSE files[f]]

\* lines 567-584: the uploaded files of a new name get their entry
AddUploads(files, ups, precision, filter_on) ==
    [f \in DOMAIN files \cup DOMAIN ups |->
        IF f \in DOMAIN files
        THEN files[f]
        ELSE NewFileEntry(parse_pdf_by_clauses(ups[f], precision, filter_on))]

SessionInit ==
    /\ api_key = "sk"
    /\ target_clauses = <<>>
    /\ compare_files = NoFiles
    /\ NoRun
    /\ NoParse
    /\ NoUploads

\* lines 105-117 and 543-584: a rerun of the script with the widgets at these
\* values and no button pressed
ScriptRun(tf, ups, precision, filter_on) ==
    /\ pc = "idle"
    /\ target_file' = tf
    /\ uploads' = ups
    /\ parse_precision' = precision
    /\ filter_tables' = filter_on
    /\ target_clauses' = IF tf.some
                         THEN parse_pdf_by_clauses(tf.pages, precision, filter_on)
                         ELSE target_clauses
    /\ compare_files' = AddUploads(compare_files, ups, precision, filter_on)
    /\ UNCHANGED <<current_file, api_key, pc, run_file, ret>>
    /\ RunUnchanged
    /\ UNCHANGED <<full_text, seg_pc, clauses_list, parsed>>

\* line 541: a target file is uploaded, replaced or removed
ChangeTarget ==
    \E tf \in TargetChoices \ {target_file} :
        ScriptRun(tf, uploads, parse_precision, filter_tables)

\* line 559: comparison files are uploaded, replaced or removed
ChangeUploads ==
    \E ups \in UploadChoices \ {uploads} :
        ScriptRun(target_file, ups, parse_precision, filter_tables)

\* lines 105-110: the slider of the precision is moved
ChangePrecision ==
    \E precision \in Precisions \ {parse_precision} :
        ScriptRun(target_file, uploads, precision, filter_tables)

\* lines 113-117: the check box is switched
ChangeFilter ==
    ScriptRun(target_file, uploads, parse_precision, ~filter_tables)

\* the rerun of a pressed button is over: its locals are gone and the script
\* waits for the next change
ScriptEnd ==
    /\ pc = "done"
    /\ pc' = "idle"
    /\ run_file' = NoneStr
    /\ all_matched' = <<>>
    /\ match_method' = "none"
    /\ total_matched' = 0
    /\ idx' = 0
    /\ compliant_results' = <<>>
    /\ non_compliant_results' = <<>>
    /\ calls' = <<>>
    /\ requests' = 0
    /\ errors' = 0
    /\ faults' = 0
    /\ ret' = NoReturn
    /\ SessionUnchanged /\ ParseUnchanged

SessionNext ==
    \/ ChangeTarget
    \/ ChangeUploads
    \/ ChangePrecision
    \/ ChangeFilter
    \/ ClickNoTarget
    \/ ClickNoCompare
    \/ ClickNoMatch
    \/ ClickMatch
    \/ JudgePair
    \/ Summarise
    \/ ScriptEnd

SpecSession == SessionInit /\ [][SessionNext]_vars

(***************************************************************************)
(* The claims about the session.                                           *)
(***************************************************************************)
\* a step in which the analyze button of the file is pressed while the
\* target clause set or the clause set of the file is empty
PressedWithoutClauses ==
    /\ pc = "idle"
    /\ pc' # "idle"
    /\ \/ target_clauses = <<>>
       \/ compare_files[FileName].clauses = <<>>

\* C14: pressing the analyze button of a comparison file when the target
\* clause set is empty or the clause set of the file is empty leaves the
\* session state as it was: the file's matched_results, summary,
\* total_compliant and total_matched, current_file and every other entry
\* keep their values, and no call of the collaborator is made.
C14_EmptyClauseSetsChangeNothing ==
    [][PressedWithoutClauses =>
          /\ compare_files' = compare_files
          /\ current_file' = current_file
          /\ target_clauses' = target_clauses
          /\ calls' = calls
          /\ requests' = requests
          /\ pc' = "done"]_vars

\* C14, its case: the file was analysed and has results, the target file was
\* then replaced by one without a clause, and the button was pressed again
C14_Witness ==
    /\ pc = "done"
    /\ run_file = FileName
    /\ ~ret.called
    /\ target_clauses = <<>>
    /\ current_file = FileName
    /\ compare_files[FileName].matched_results.some
    /\ compare_files[FileName].total_matched > 0

\* a rerun of the script in which no button is pressed
Rerun == pc = "idle" /\ pc' = "idle"

\* C15: the clause set of a comparison file name is written when the name
\* first appears among the uploads, parsed with the precision and the table
\* filter of that rerun, and no later step changes it or removes the entry;
\* a rerun without a pressed button changes nothing of the entry, and no
\* step sets stored results back to None, whatever is uploaded under the
\* name and however the precision and the table filter are set; the target
\* clause set is the parse of the target file in the uploader with the
\* current precision and table filter after every step in which there is one.
C15_CompareClausesWrittenOnce ==
    [][/\ \A f \in DOMAIN compare_files :
             /\ f \in DOMAIN compare_files'
             /\ compare_files'[f].clauses = compare_files[f].clauses
             /\ Rerun => compare_files'[f] = compare_files[f]
             /\ compare_files[f].matched_results.some
                   => compare_files'[f].matched_results.some
       /\ \A f \in DOMAIN compare_files' \ DOMAIN compare_files :
             /\ f \in DOMAIN uploads'
             /\ compare_files'[f] =
                   NewFileEntry(parse_pdf_by_clauses(uploads'[f], parse_precision',
                                                     filter_tables'))
       /\ target_file'.some =>
             target_clauses' = parse_pdf_by_clauses(target_file'.pages,
                                                    parse_precision', filter_tables')
      ]_vars

\* C15, its case: the file has stored results, and the file now uploaded
\* under its name, parsed with the current precision and table filter, gives
\* other clauses than the stored ones
C15_Witness ==
    /\ pc = "idle"
    /\ FileName \in DOMAIN compare_files
    /\ FileName \in DOMAIN uploads
    /\ compare_files[FileName].matched_results.some
    /\ compare_files[FileName].clauses # <<>>
    /\ parse_pdf_by_clauses(uploads[FileName], parse_precision, filter_tables) # <<>>
    /\ compare_files[FileName].clauses #
          parse_pdf_by_clauses(uploads[FileName], parse_precision, filter_tables)

====
